---- MODULE Spec2Model ----
(***************************************************************************)
(* Model of sync_mongo_to_sheet.py: one run reads column A of the          *)
(* worksheet, builds the identifier -> row index, then upserts every       *)
(* document of the Mongo collection into the sheet through safe_update,    *)
(* applies the formatting calls and prints the success message.            *)
(*                                                                         *)
(* Python strings are modelled as sequences of one-character strings, so   *)
(* that strip() and lower() are computed and not assumed.  Python values   *)
(* of several possible types (a plan, a lastPayment) are tagged records.   *)
(***************************************************************************)
EXTENDS Integers, Sequences, FiniteSets, TLC

\* ---------------------------------------------------------------- bounds
\* data rows that may already be filled on the sheet when a run starts
MaxExisting == 3
\* documents in the collection
MaxDocs == 3
\* data rows that may already be filled where several runs, or all the
\* infinite behaviours of a run, are explored
MaxExistingSmall == 0
\* documents in the collection where all the infinite behaviours are explored
MaxDocsFair == 2

\* ------------------------------------------------------ program constants
DATA_START_ROW == 8
ID_COL == 1
\* safe_update(range_name, values, retries=5)
retries == 5

\* --------------------------------------------------------------- strings
Whitespace == {" "}

RECURSIVE LStrip(_)
LStrip(s) == IF s # <<>> /\ Head(s) \in Whitespace THEN LStrip(Tail(s)) ELSE s

RECURSIVE RStrip(_)
RStrip(s) ==
    IF s # <<>> /\ s[Len(s)] \in Whitespace
    THEN RStrip(SubSeq(s, 1, Len(s) - 1))
    ELSE s

\* str.strip()
strip(s) == RStrip(LStrip(s))

UpperChars == <<"A","B","C","D","E","F","G","H","I","J","K","L","M",
                "N","O","P","Q","R","S","T","U","V","W","X","Y","Z">>
LowerChars == <<"a","b","c","d","e","f","g","h","i","j","k","l","m",
                "n","o","p","q","r","s","t","u","v","w","x","y","z">>

LowerChar(c) ==
    IF \E n \in 1..Len(UpperChars) : UpperChars[n] = c
    THEN LowerChars[CHOOSE n \in 1..Len(UpperChars) : UpperChars[n] = c]
    ELSE c

\* str.lower()
lower(s) == [n \in 1..Len(s) |-> LowerChar(s[n])]

\* ---------------------------------------------------------- Python values
None == [t |-> "none"]
Str(s) == [t |-> "str", s |-> s]
Datetime(y, m, d, h) == [t |-> "datetime", y |-> y, m |-> m, d |-> d, h |-> h]
EmptyStr == Str(<<>>)

\* isinstance(value, datetime)
IsDatetime(v) == v.t = "datetime"

\* str(value), as a character sequence
str(v) ==
    IF v.t = "str" THEN v.s
    ELSE IF v.t = "none" THEN <<"N","o","n","e">>
    ELSE <<"d","a","t","e","t","i","m","e">>

\* ------------------------------------------------------------- calendar
IsLeap(y) == (y % 4 = 0 /\ y % 100 # 0) \/ y % 400 = 0

\* calendar.monthrange(y, m)[1]
DaysInMonth(y, m) ==
    IF m = 2 THEN (IF IsLeap(y) THEN 29 ELSE 28)
    ELSE IF m \in {4, 6, 9, 11} THEN 30
    ELSE 31

Min(a, b) == IF a < b THEN a ELSE b

\* dt + relativedelta(years=years, months=months), for 0 <= months <= 12:
\* the year is advanced, the month is advanced and wrapped past December,
\* the day is clamped to the length of the target month, the time is kept.
relativedelta(dt, years, months) ==
    LET y0 == dt.y + years
        m0 == dt.m + months
        y1 == IF m0 > 12 THEN y0 + 1 ELSE y0
        m1 == IF m0 > 12 THEN m0 - 12 ELSE m0
    IN  Datetime(y1, m1, Min(DaysInMonth(y1, m1), dt.d), dt.h)

PlanMonthly == <<"m","o","n","t","h","l","y">>
Plan3Month == <<"3","m","o","n","t","h">>
PlanYearly == <<"y","e","a","r","l","y">>

\* calculate_valid_till comparing the plan as given, not trimmed, not lowered
calculate_valid_till_raw_plan(last_payment, plan) ==
    IF ~IsDatetime(last_payment) THEN EmptyStr
    ELSE LET p == str(plan)
         IN  IF p = PlanMonthly THEN relativedelta(last_payment, 0, 1)
             ELSE IF p = Plan3Month THEN relativedelta(last_payment, 0, 3)
             ELSE IF p = PlanYearly THEN relativedelta(last_payment, 1, 0)
             ELSE last_payment

calculate_valid_till(last_payment, plan) ==
    IF ~IsDatetime(last_payment) THEN EmptyStr
    ELSE LET p == lower(strip(str(plan)))
         IN  IF p = PlanMonthly THEN relativedelta(last_payment, 0, 1)
             ELSE IF p = Plan3Month THEN relativedelta(last_payment, 0, 3)
             ELSE IF p = PlanYearly THEN relativedelta(last_payment, 1, 0)
             ELSE last_payment

MonthAbbr == << <<"J","a","n">>, <<"F","e","b">>, <<"M","a","r">>,
               <<"A","p","r">>, <<"M","a","y">>, <<"J","u","n">>,
               <<"J","u","l">>, <<"A","u","g">>, <<"S","e","p">>,
               <<"O","c","t">>, <<"N","o","v">>, <<"D","e","c">> >>

DigitChars == <<"0","1","2","3","4","5","6","7","8","9">>
Digit(n) == DigitChars[n + 1]

\* value.strftime("%d-%b-%Y"): two-digit day, month abbreviation, four-digit
\* year; the time of day is dropped
strftime(value) ==
    <<Digit(value.d \div 10), Digit(value.d % 10), "-">>
    \o MonthAbbr[value.m] \o
    <<"-", Digit(value.y \div 1000), Digit((value.y \div 100) % 10),
      Digit((value.y \div 10) % 10), Digit(value.y % 10)>>

fmt_date(value) ==
    IF IsDatetime(value) THEN Str(strftime(value)) ELSE EmptyStr

\* ------------------------------------------------------------ worksheet
\* A sheet row is the tuple of its cells from column A on; <<>> is a blank
\* row.  Column A holds a character sequence, <<>> for an empty cell.
\* The claims about several runs are about a run and the run after it.
Runs == {1, 2}

Rows == 1..(DATA_START_ROW - 1 + MaxExisting + Cardinality(Runs) * MaxDocs)

Cell(sheetRow, col) == IF Len(sheetRow) >= col THEN sheetRow[col] ELSE <<>>

LastUsed(sheet, col) ==
    IF \E r \in Rows : Cell(sheet[r], col) # <<>>
    THEN CHOOSE r \in Rows :
            /\ Cell(sheet[r], col) # <<>>
            /\ \A q \in Rows : q > r => Cell(sheet[q], col) = <<>>
    ELSE 0

\* ws.col_values(col): the cells of the column from row 1 down to the last
\* non-empty cell, empty cells in between as empty strings
col_values(sheet, col) == [r \in 1..LastUsed(sheet, col) |-> Cell(sheet[r], col)]

\* seq[n + 1:], a slice that starts one cell late
SliceFromOneLate(seq, n) ==
    IF n + 1 >= Len(seq) THEN <<>> ELSE SubSeq(seq, n + 2, Len(seq))

\* seq[n:]
SliceFrom(seq, n) == IF n >= Len(seq) THEN <<>> ELSE SubSeq(seq, n + 1, Len(seq))

\* an update that writes blank rows only
SheetUpdateIfBlank(sheet, r, data) ==
    IF sheet[r] = <<>> THEN [sheet EXCEPT ![r] = data] ELSE sheet

\* ws.update(range_name="A{row}:N{row}", values=[row_data])
SheetUpdate(sheet, r, data) == [sheet EXCEPT ![r] = data]

\* ------------------------------------------------------------- row index
\* The dict id_to_row is the set of its items [id, row].
HasKey(idx, k) == \E p \in idx : p.id = k

\* idx.get(k, default)
Get(idx, k, default) ==
    IF HasKey(idx, k) THEN (CHOOSE p \in idx : p.id = k).row ELSE default

\* idx.setdefault(k, r)
PutIfAbsent(idx, k, r) ==
    IF \E p \in idx : p.id = k THEN idx ELSE idx \cup {[id |-> k, row |-> r]}

\* idx[k] = r
Put(idx, k, r) == {p \in idx : p.id # k} \cup {[id |-> k, row |-> r]}

Keys(idx) == {p.id : p \in idx}

RECURSIVE IndexLoop(_, _, _)
IndexLoop(ids, n, idx) ==
    IF n > Len(ids) THEN idx
    ELSE IndexLoop(ids, n + 1,
                   IF strip(ids[n]) # <<>>
                   THEN Put(idx, strip(ids[n]), DATA_START_ROW + (n - 1))
                   ELSE idx)

\* for i, v in enumerate(existing_ids): if v.strip(): id_to_row[v.strip()] = DATA_START_ROW + i
RowIndex(ids) == IndexLoop(ids, 1, {})

\* next_row = DATA_START_ROW + the number of non-blank cells
NextFreeRowCompacted(ids) ==
    DATA_START_ROW + Cardinality({n \in 1..Len(ids) : strip(ids[n]) # <<>>})

\* next_row = DATA_START_ROW + len(existing_ids)
NextFreeRow(ids) == DATA_START_ROW + Len(ids)

\* row = id_to_row.get(mongo_id, next_row)
ResolveRow(idx, nr, k) == Get(idx, k, nr)

\* the index left as it is: the new identifier is not recorded
IndexAfterForgetting(idx, nr, k) == idx

\* id_to_row[mongo_id] = next_row, whether or not the identifier is known
IndexAfterOverwriting(idx, nr, k) == Put(idx, k, nr)

\* if mongo_id not in id_to_row: id_to_row[mongo_id] = row
IndexAfter(idx, nr, k) == IF HasKey(idx, k) THEN idx ELSE Put(idx, k, ResolveRow(idx, nr, k))

\* next_row left as it is after an allocation
NextRowNotAdvanced(idx, nr, k) == nr

\* if mongo_id not in id_to_row: next_row += 1
NextRowAfter(idx, nr, k) == IF HasKey(idx, k) THEN nr ELSE nr + 1

\* ------------------------------------------------------------- documents
IdA == <<"a">>
IdB == <<"b">>
IdC == <<"c">>
IdPaddedA == <<" ", "a">>

\* str(doc["_id"]) of the documents of the collection
TrimmedIds == {IdA, IdB, IdC}

\* the same with an identifier that carries whitespace
SourceIds == TrimmedIds \cup {IdPaddedA}

\* what column A of a data row may hold before a run
Cells == {<<>>, IdA, IdPaddedA, IdB}

SamplePlans == <<Str(<<"M","o","n","t","h","l","y">>), Str(PlanYearly),
                 Str(<<>>), Str(Plan3Month), None>>
SamplePayments == <<Datetime(2024, 1, 15, 0), Datetime(2024, 6, 10, 9),
                    None, Datetime(2024, 11, 30, 0), Datetime(2023, 12, 31, 0)>>

\* the k-th document of the collection, in cursor order
MkDoc(k, id) ==
    [_id |-> Str(id),
     plan |-> SamplePlans[((k - 1) % Len(SamplePlans)) + 1],
     lastPayment |-> SamplePayments[((k - 1) % Len(SamplePayments)) + 1]]

IdSeqs(idSet, n) == UNION {[1..m -> idSet] : m \in 0..n}

\* the collections of up to n documents with identifiers from idSet
Collections(idSet, n) ==
    {[k \in 1..Len(ids) |-> MkDoc(k, ids[k])] : ids \in IdSeqs(idSet, n)}

\* row_data for one document
RowData(doc, validTill) ==
    <<str(doc._id), doc.plan, fmt_date(doc.lastPayment), fmt_date(validTill)>>

HeaderTitle == <<"I", "D">>

\* a sheet with an optional title above the data and cells[1..n] in column A
\* of the first n data rows
SheetOf(titled, cells) ==
    [r \in Rows |->
        IF r = DATA_START_ROW - 1 /\ titled THEN <<HeaderTitle>>
        ELSE IF r >= DATA_START_ROW /\ r - DATA_START_ROW + 1 <= Len(cells)
                /\ cells[r - DATA_START_ROW + 1] # <<>>
             THEN <<cells[r - DATA_START_ROW + 1]>>
        ELSE <<>>]

\* the sheets a run may find: a titled sheet with anything in the first n
\* data cells of column A, or a sheet with nothing on it at all
Sheets(n) == {SheetOf(TRUE, cells) : cells \in [1..n -> Cells]} \cup {SheetOf(FALSE, <<>>)}

\* ----------------------------------------------------------------- state
VARIABLES
    ws,            \* the worksheet: row number -> sheet row
    source,        \* collection.find(): the documents in cursor order
    pc,            \* "start", "loop", "update", "format", "done", "aborted"
    raised,        \* where an unhandled exception ended the run: "none", "update", "format"
    existing_ids,  \* line 97
    id_to_row,     \* line 98
    next_row,      \* line 104
    pos,           \* documents the for loop has finished
    valid_till,    \* line 115
    row,           \* line 137
    row_data,      \* line 120
    i,             \* safe_update's loop variable while safe_update runs, else 0
    outcome,       \* history: how the latest ws.update call ended: "none", "ok", "APIError", "other"
    placed,        \* history: the row resolved for each document so far
    applied,       \* history: whether each finished safe_update call wrote its row
    run,           \* number of this run
    history        \* history: the finished runs

vars == <<ws, source, pc, raised, existing_ids, id_to_row, next_row, pos,
          valid_till, row, row_data, i, outcome, placed, applied, run, history>>

locals == <<valid_till, row, row_data>>

RunStart ==
    /\ pc = "start"
    /\ raised = "none"
    /\ existing_ids = <<>>
    /\ id_to_row = {}
    /\ next_row = 0
    /\ pos = 0
    /\ valid_till = EmptyStr
    /\ row = 0
    /\ row_data = <<>>
    /\ i = 0
    /\ outcome = "none"
    /\ placed = <<>>
    /\ applied = <<>>

Init ==
    /\ ws \in Sheets(MaxExisting)
    /\ source \in Collections(TrimmedIds, MaxDocs)
    /\ run = 1
    /\ history = <<>>
    /\ RunStart

\* lines 97-104
ReadExistingIds ==
    /\ pc = "start"
    /\ existing_ids' = SliceFrom(col_values(ws, ID_COL), DATA_START_ROW - 1)
    /\ id_to_row' = RowIndex(existing_ids')
    /\ next_row' = NextFreeRow(existing_ids')
    /\ pc' = "loop"
    /\ UNCHANGED <<ws, source, raised, pos, locals, i, outcome, placed, applied,
                   run, history>>

\* lines 111-143 up to the call of safe_update, whose loop starts with i = 0
NextDoc ==
    /\ pc = "loop"
    /\ pos < Len(source)
    /\ LET doc == source[pos + 1]
           mongo_id == str(doc._id)
           vt == calculate_valid_till(doc.lastPayment, doc.plan)
       IN  /\ valid_till' = vt
           /\ row_data' = RowData(doc, vt)
           /\ row' = ResolveRow(id_to_row, next_row, mongo_id)
           /\ id_to_row' = IndexAfter(id_to_row, next_row, mongo_id)
           /\ next_row' = NextRowAfter(id_to_row, next_row, mongo_id)
    /\ placed' = Append(placed, row')
    /\ i' = 0
    /\ outcome' = "none"
    /\ pc' = "update"
    /\ UNCHANGED <<ws, source, raised, existing_ids, pos, applied, run, history>>

\* lines 86-91: ws.update succeeds, safe_update returns
UpdateOk ==
    /\ pc = "update"
    /\ i < retries
    /\ ws' = SheetUpdate(ws, row, row_data)
    /\ outcome' = "ok"
    /\ i' = 0
    /\ applied' = Append(applied, TRUE)
    /\ pos' = pos + 1
    /\ pc' = "loop"
    /\ UNCHANGED <<source, raised, existing_ids, id_to_row, next_row, locals,
                   placed, run, history>>

\* lines 92-93: ws.update raises APIError, safe_update sleeps and loops
UpdateAPIError ==
    /\ pc = "update"
    /\ i < retries
    /\ outcome' = "APIError"
    /\ i' = i + 1
    /\ UNCHANGED <<ws, source, pc, raised, existing_ids, id_to_row, next_row, pos,
                   locals, placed, applied, run, history>>

\* safe_update raising once range(retries) is exhausted
SafeUpdateGiveUpRaising ==
    /\ pc = "update"
    /\ i = retries
    /\ i' = 0
    /\ raised' = "update"
    /\ pc' = "aborted"
    /\ UNCHANGED <<ws, source, existing_ids, id_to_row, next_row, pos, locals,
                   outcome, placed, applied, run, history>>

\* line 84: range(retries) is exhausted, safe_update returns None
SafeUpdateGiveUp ==
    /\ pc = "update"
    /\ i = retries
    /\ i' = 0
    /\ applied' = Append(applied, FALSE)
    /\ pos' = pos + 1
    /\ pc' = "loop"
    /\ UNCHANGED <<ws, source, raised, existing_ids, id_to_row, next_row, locals,
                   outcome, placed, run, history>>

\* line 86: ws.update raises something that is no APIError; nothing catches it
UpdateRaise ==
    /\ pc = "update"
    /\ i < retries
    /\ outcome' = "other"
    /\ i' = 0
    /\ raised' = "update"
    /\ pc' = "aborted"
    /\ UNCHANGED <<ws, source, existing_ids, id_to_row, next_row, pos, locals,
                   placed, applied, run, history>>

\* line 111: the cursor is exhausted
LoopEnd ==
    /\ pc = "loop"
    /\ pos = Len(source)
    /\ pc' = "format"
    /\ UNCHANGED <<ws, source, raised, existing_ids, id_to_row, next_row, pos,
                   locals, i, outcome, placed, applied, run, history>>

\* the success message printed only when no write was dropped
FormatOkIfNothingDropped ==
    /\ pc = "format"
    /\ \A k \in 1..Len(applied) : applied[k]
    /\ pc' = "done"
    /\ UNCHANGED <<ws, source, raised, existing_ids, id_to_row, next_row, pos,
                   locals, i, outcome, placed, applied, run, history>>

\* lines 147-222: every formatting call returns, the success message is printed
FormatOk ==
    /\ pc = "format"
    /\ pc' = "done"
    /\ UNCHANGED <<ws, source, raised, existing_ids, id_to_row, next_row, pos,
                   locals, i, outcome, placed, applied, run, history>>

\* lines 147-217: one of the formatting calls raises; nothing catches it
FormatRaise ==
    /\ pc = "format"
    /\ raised' = "format"
    /\ pc' = "aborted"
    /\ UNCHANGED <<ws, source, existing_ids, id_to_row, next_row, pos, locals, i,
                   outcome, placed, applied, run, history>>

Next ==
    \/ ReadExistingIds
    \/ NextDoc
    \/ UpdateOk
    \/ UpdateAPIError
    \/ SafeUpdateGiveUp
    \/ UpdateRaise
    \/ LoopEnd
    \/ FormatOk
    \/ FormatRaise

Spec == Init /\ [][Next]_vars

\* ------------------------------------------------------- several runs
\* The script is started again on the sheet the finished run left behind.
\* The collection is the one of the run before, with the documents inserted
\* since then after it in cursor order.
FinishedRun ==
    [source |-> source, existing_ids |-> existing_ids, placed |-> placed,
     applied |-> applied]

StartRun ==
    /\ pc = "done"
    /\ run + 1 \in Runs
    /\ \E ids \in IdSeqs(SourceIds, MaxDocs - Len(source)) :
          source' = source \o [k \in 1..Len(ids) |-> MkDoc(Len(source) + k, ids[k])]
    /\ history' = Append(history, FinishedRun)
    /\ run' = run + 1
    /\ pc' = "start"
    /\ raised' = "none"
    /\ existing_ids' = <<>>
    /\ id_to_row' = {}
    /\ next_row' = 0
    /\ pos' = 0
    /\ valid_till' = EmptyStr
    /\ row' = 0
    /\ row_data' = <<>>
    /\ i' = 0
    /\ outcome' = "none"
    /\ placed' = <<>>
    /\ applied' = <<>>
    /\ UNCHANGED ws

InitRerun ==
    /\ ws \in Sheets(MaxExistingSmall)
    /\ source \in Collections(SourceIds, MaxDocs)
    /\ run = 1
    /\ history = <<>>
    /\ RunStart

NextRerun == Next \/ StartRun

SpecRerun == InitRerun /\ [][NextRerun]_vars

\* ------------------------------------------------------------- fairness
\* The script is sequential and keeps executing: whenever it can take a
\* step in which its calls return, it eventually takes a step.  That a call
\* raises is possible, never guaranteed.
Progress ==
    \/ ReadExistingIds
    \/ NextDoc
    \/ UpdateOk
    \/ UpdateAPIError
    \/ SafeUpdateGiveUp
    \/ LoopEnd
    \/ FormatOk

InitFair ==
    /\ ws \in Sheets(MaxExistingSmall)
    /\ source \in Collections(TrimmedIds, MaxDocsFair)
    /\ run = 1
    /\ history = <<>>
    /\ RunStart

FairSpec == InitFair /\ [][Next]_vars /\ WF_vars(Progress)

\* ------------------------------------------- inputs of calculate_valid_till
Years == {2023, 2024}
Days == {1, 15, 28, 29, 30, 31}
Hours == {0, 18}

Datetimes ==
    {Datetime(y, m, d, h) : y \in Years, m \in 1..12, d \in Days, h \in Hours}

ValidDatetimes == {dt \in Datetimes : dt.d <= DaysInMonth(dt.y, dt.m)}

\* doc.get("lastPayment"): a datetime, absent, or a string that is no datetime
LastPayments ==
    ValidDatetimes \cup {None, Str(<<"2","0","2","4","-","0","1","-","1","5">>)}

\* doc.get("plan", ""), each with what the text says once trimmed and
\* compared without regard to case
PlanCases ==
    {[plan |-> Str(PlanMonthly), means |-> "monthly"],
     [plan |-> Str(<<"M","o","n","t","h","l","y">>), means |-> "monthly"],
     [plan |-> Str(<<" ","M","O","N","T","H","L","Y"," ">>), means |-> "monthly"],
     [plan |-> Str(Plan3Month), means |-> "3month"],
     [plan |-> Str(<<"3","M","o","n","t","h"," ">>), means |-> "3month"],
     [plan |-> Str(<<"3","-","m","o","n","t","h">>), means |-> "3-month"],
     [plan |-> Str(<<" ","3","-","M","o","n","t","h">>), means |-> "3-month"],
     [plan |-> Str(PlanYearly), means |-> "yearly"],
     [plan |-> Str(<<"Y","E","A","R","L","Y"," ">>), means |-> "yearly"],
     [plan |-> Str(<<>>), means |-> "other"],
     [plan |-> Str(<<"w","e","e","k","l","y">>), means |-> "other"],
     [plan |-> Str(<<"m","o","n","t","h"," ","l","y">>), means |-> "other"],
     [plan |-> None, means |-> "other"]}

InitValidTill ==
    /\ ws = SheetOf(FALSE, <<>>)
    /\ \E c \in PlanCases, lp \in LastPayments :
          source = <<[_id |-> Str(IdA), plan |-> c.plan, lastPayment |-> lp]>>
    /\ run = 1
    /\ history = <<>>
    /\ RunStart

SpecValidTill == InitValidTill /\ [][Next]_vars

\* ================================================================ claims
\* str(doc["_id"]) of the k-th document of this run
DocId(k) == str(source[k]._id)

\* the identifiers the sheet held when this run read it
SheetKeys == {strip(existing_ids[n]) : n \in 1..Len(existing_ids)} \ {<<>>}

\* the k-th document is the first of this run to carry an identifier the sheet did not hold
IsNewAt(k) == DocId(k) \notin SheetKeys /\ \A j \in 1..(k - 1) : DocId(j) # DocId(k)

NewUpTo(k) == {j \in 1..k : IsNewAt(j)}

FirstFree == DATA_START_ROW + Len(existing_ids)

Built == pc = "loop" /\ pos = 0

OccurrencesOf(k) == {n \in 1..Len(existing_ids) : strip(existing_ids[n]) = k}

FirstOcc(k) == CHOOSE n \in OccurrencesOf(k) : \A m \in OccurrencesOf(k) : n <= m
LastOcc(k) == CHOOSE n \in OccurrencesOf(k) : \A m \in OccurrencesOf(k) : n >= m

RowsOf(k) == {p.row : p \in {q \in id_to_row : q.id = k}}

\* each identifier of the index has one row, the new identifiers got the
\* consecutive rows from the first free row on in document order, and
\* next_row counts them
C3_State ==
    pc # "start" =>
        /\ \A p, q \in id_to_row : p.id = q.id => p.row = q.row
        /\ \A k \in 1..Len(placed) :
              IsNewAt(k) => placed[k] = FirstFree + Cardinality(NewUpTo(k - 1))
        /\ next_row = FirstFree + Cardinality(NewUpTo(Len(placed)))

\* the index keeps all its items and next_row does not decrease
C3_Step == id_to_row \subseteq id_to_row' /\ next_row' >= next_row

\* C3: in every state of a run each identifier of the index has one row, the
\* new identifiers got the consecutive rows from the first free row on in
\* document order, and next_row counts them; in every step the index keeps
\* all its items and next_row does not decrease.
C3_RowsAssignedOnceInOrder == []C3_State /\ [][C3_Step]_vars

\* C3 witness: two new identifiers were placed after an identifier of the sheet
C3_Witness ==
    /\ Len(placed) = 3
    /\ ~IsNewAt(1) /\ IsNewAt(2) /\ IsNewAt(3)
    /\ Keys(id_to_row) # Keys(RowIndex(existing_ids))

\* C4 as stated: after the index build over a non-empty column, every
\* identifier has exactly one row and the rows increase in the order of the
\* identifiers' first occurrence.
C4_FirstOccurrenceOrder ==
    (Built /\ existing_ids # <<>>) =>
        /\ \A k \in SheetKeys : Cardinality(RowsOf(k)) = 1
        /\ \A k, l \in SheetKeys :
              FirstOcc(k) < FirstOcc(l) =>
                  \A r \in RowsOf(k), t \in RowsOf(l) : r < t

\* C4 amended: every identifier has exactly one row, the row of its last
\* occurrence, so the rows increase in the order of the last occurrences.
C4_LastOccurrenceOrder ==
    (Built /\ existing_ids # <<>>) =>
        /\ Keys(id_to_row) = SheetKeys
        /\ \A k \in SheetKeys : RowsOf(k) = {DATA_START_ROW + LastOcc(k) - 1}
        /\ \A k, l \in SheetKeys :
              LastOcc(k) < LastOcc(l) =>
                  \A r \in RowsOf(k), t \in RowsOf(l) : r < t

\* C4 witness: the column read holds an identifier twice and another one in between
C4_Witness ==
    /\ Built
    /\ \E k, l \in SheetKeys :
          /\ Cardinality(OccurrencesOf(k)) = 2
          /\ FirstOcc(k) < FirstOcc(l) /\ FirstOcc(l) < LastOcc(k)

\* the rows the index built from the sheet uses
BuiltRows ==
    {DATA_START_ROW + n - 1 : n \in {m \in 1..Len(existing_ids) : strip(existing_ids[m]) # <<>>}}

\* C9: the sequence read is column A from the data start row down to the last
\* non-empty cell, blanks included; right after the build next_row is the data
\* start row plus its length, and the index is empty for an empty sequence;
\* every row given to a new identifier is above every row of the built index.
C9_AppendPosition ==
    /\ Built =>
          /\ \A n \in 1..Len(existing_ids) :
                existing_ids[n] = Cell(ws[DATA_START_ROW + n - 1], ID_COL)
          /\ \A r \in Rows :
                r >= DATA_START_ROW + Len(existing_ids) => Cell(ws[r], ID_COL) = <<>>
          /\ existing_ids # <<>> => existing_ids[Len(existing_ids)] # <<>>
          /\ next_row = DATA_START_ROW + Len(existing_ids)
          /\ existing_ids = <<>> => (id_to_row = {} /\ next_row = DATA_START_ROW)
    /\ pc # "start" =>
          \A k \in 1..Len(placed) :
              IsNewAt(k) => \A r \in BuiltRows : placed[k] > r

\* C9 witness: a column with a blank cell between identifiers was read and a
\* new identifier was placed
C9_Witness ==
    /\ \E n \in 1..Len(existing_ids) : existing_ids[n] = <<>>
    /\ \E k \in 1..Len(placed) : IsNewAt(k)

\* C10: no two identifiers share a row, in the index and among the rows
\* resolved for the documents.
C10_Injective ==
    /\ \A p, q \in id_to_row : p.row = q.row => p.id = q.id
    /\ \A j, k \in 1..Len(placed) : placed[j] = placed[k] => DocId(j) = DocId(k)

\* C10 witness: two identifiers of the sheet and a new identifier were resolved
C10_Witness ==
    /\ Len(placed) = 3
    /\ Cardinality({DocId(k) : k \in 1..3}) = 3
    /\ Cardinality(NewUpTo(3)) = 1
    /\ Cardinality({placed[k] : k \in 1..3}) = 3

\* the row_data line 120 builds for the k-th document
RowDataOf(k) ==
    RowData(source[k], calculate_valid_till(source[k].lastPayment, source[k].plan))

PositionsOf(k) == {j \in 1..Len(placed) : DocId(j) = DocId(k)}

\* the last document with the identifier of the k-th whose write was applied
LastApplied(k) ==
    CHOOSE j \in PositionsOf(k) :
        /\ applied[j]
        /\ \A m \in PositionsOf(k) : applied[m] => m <= j

LoopFinished == pc \in {"format", "done"} \/ (pc = "aborted" /\ raised = "format")

\* C8 as stated: after the loop, documents with the same identifier resolved
\* to the same row, one row was allocated for them, and the row holds the
\* content of the later document.
C8_LaterRecordWins ==
    LoopFinished =>
        \A j, k \in 1..Len(source) :
            (j < k /\ DocId(j) = DocId(k)) =>
                /\ placed[j] = placed[k]
                /\ Cardinality(RowsOf(DocId(k))) = 1
                /\ next_row = FirstFree + Cardinality(NewUpTo(Len(source)))
                /\ (\A m \in PositionsOf(k) : m <= k) => ws[placed[k]] = RowDataOf(k)

\* C8 amended: the row holds the content of the last of these documents whose
\* write was applied, the later one's whenever its write was applied.
C8_LastAppliedWins ==
    LoopFinished =>
        \A j, k \in 1..Len(source) :
            (j < k /\ DocId(j) = DocId(k)) =>
                /\ placed[j] = placed[k]
                /\ Cardinality(RowsOf(DocId(k))) = 1
                /\ next_row = FirstFree + Cardinality(NewUpTo(Len(source)))
                /\ (\E m \in PositionsOf(k) : applied[m]) =>
                        ws[placed[k]] = RowDataOf(LastApplied(k))

\* C8 witness: two documents carried a new identifier, both writes were
\* applied and the loop finished
C8_Witness ==
    /\ pc = "done"
    /\ \E j, k \in 1..Len(source) :
          /\ j < k /\ DocId(j) = DocId(k) /\ IsNewAt(j)
          /\ applied[j] /\ applied[k]
          /\ RowDataOf(j) # RowDataOf(k)

\* while safe_update runs it has made i <= retries calls of ws.update, all
\* of which ended in APIError; a run that ended in safe_update ended on an
\* exception that is no APIError
C5_State ==
    /\ pc = "update" =>
          /\ i <= retries
          /\ i = 0 => outcome = "none"
          /\ i > 0 => outcome = "APIError"
    /\ (pc = "aborted" /\ raised = "update") => outcome = "other"

\* after `retries` APIErrors safe_update returns with the sheet unchanged and
\* the loop goes on; an APIError never ends the run nor writes; a success
\* ends safe_update
C5_Step ==
    /\ (pc = "update" /\ i = retries) =>
          /\ pc' = "loop"
          /\ raised' = "none"
          /\ ws' = ws
          /\ pos' = pos + 1
          /\ applied' = Append(applied, FALSE)
    /\ (pc = "update" /\ outcome' = "APIError") =>
          (pc' \in {"update", "loop"} /\ raised' = "none" /\ ws' = ws)
    /\ (pc = "update" /\ outcome' = "ok") => pc' = "loop"

\* C5: while safe_update runs it has made i <= retries calls of ws.update,
\* all of which ended in APIError, so no call follows a success; an APIError
\* never ends the run; after `retries` APIErrors it returns with the sheet
\* unchanged and the loop goes on to the next document; every call of
\* safe_update ends.
C5_BoundedRetryNeverRaises ==
    /\ []C5_State
    /\ [][C5_Step]_vars
    /\ (pc = "update") ~> (pc # "update")

\* C5 witness: every attempt of a write failed with APIError and the loop
\* went on to the next document
C5_Witness ==
    /\ pc = "update"
    /\ pos >= 1
    /\ ~applied[pos]
    /\ ws[placed[pos]] # RowDataOf(pos)

MonthIndex(dt) == dt.y * 12 + (dt.m - 1)

\* r is t advanced by n calendar months: n months later, the same day of the
\* month or the last day of a shorter month, the same time of day
IsMonthsAfter(r, t, n) ==
    /\ IsDatetime(r)
    /\ MonthIndex(r) = MonthIndex(t) + n
    /\ r.d = Min(t.d, DaysInMonth(r.y, r.m))
    /\ r.h = t.h

\* what the text of the plan of the document in hand says
MeaningOf(plan) == (CHOOSE c \in PlanCases : c.plan = plan).means

\* valid_till of the document in hand follows the expiry rule with plan3 as
\* the spelling of the three-month plan
ExpiryRule(plan3) ==
    LET doc == source[pos + 1]
        t == doc.lastPayment
        means == MeaningOf(doc.plan)
    IN  IF ~IsDatetime(t) THEN valid_till = EmptyStr
        ELSE IF means = "monthly" THEN IsMonthsAfter(valid_till, t, 1)
        ELSE IF means = plan3 THEN IsMonthsAfter(valid_till, t, 3)
        ELSE IF means = "yearly" THEN IsMonthsAfter(valid_till, t, 12)
        ELSE valid_till = t

\* C7 as stated: the plans are monthly, 3-month and yearly.
C7_ExpiryRule3DashMonth == pc = "update" => ExpiryRule("3-month")

\* C7 amended: the plans are monthly, 3month and yearly; the expiry is the last
\* payment plus 1 month, 3 months, 1 year, the last payment itself for every
\* other plan, and empty when the last payment is no timestamp.
C7_ExpiryRule3Month == pc = "update" => ExpiryRule("3month")

\* C7 witness: the expiry of a 3month plan paid on 30 November was computed,
\* which crosses the year and meets the shorter February
C7_Witness ==
    /\ pc = "update"
    /\ MeaningOf(source[pos + 1].plan) = "3month"
    /\ source[pos + 1].plan # Str(Plan3Month)
    /\ IsDatetime(source[pos + 1].lastPayment)
    /\ source[pos + 1].lastPayment.m = 11 /\ source[pos + 1].lastPayment.d = 30
    /\ valid_till.m = 2 /\ valid_till.d < 30

\* the run before this one
Prev == history[Len(history)]

PrevDocId(k) == str(Prev.source[k]._id)

TwoThenThree ==
    /\ run > 1 /\ pc = "done"
    /\ Len(Prev.source) = 2 /\ Len(source) = 3
    /\ Cardinality({DocId(1), DocId(2), DocId(3)}) = 3
    /\ DocId(3) \notin SheetKeys

\* the first row above r from which on column A was empty when this run read it
NextFreeAfter(r) == IF r + 1 > FirstFree THEN r + 1 ELSE FirstFree

RowsKept ==
    /\ placed[1] = Prev.placed[1]
    /\ placed[2] = Prev.placed[2]
    /\ placed[3] = NextFreeAfter(placed[2])

Trimmed(k) == strip(DocId(k)) = DocId(k) /\ DocId(k) # <<>>

====
